---------------------------- MODULE Spec2Model ----------------------------
(***************************************************************************)
(* A model of lagon/file_watcher: the concurrent fingerprinting pipeline   *)
(* of file_watcher.py (main, the walker list_and_process_directory, the    *)
(* workers file_fingerprint, the collector write_file_state) and the       *)
(* sqlite store of sql_wrapper.py (FileDBWrapper).                         *)
(*                                                                         *)
(* A Python str is modelled as a sequence of tokens.  Paths, file names    *)
(* and exclusion patterns are sequences of one-character tokens, so that   *)
(* str.replace, str.split, str.join, os.path.join, os.path.dirname and     *)
(* Pattern.search are modelled by what they do.  A metadata key is a       *)
(* one-token string (<<"excludes">>).                                      *)
(***************************************************************************)
EXTENDS Integers, Sequences, FiniteSets, TLC

(***************************************************************************)
(* Bounds of the model.                                                    *)
(***************************************************************************)
MaxRuns == 3          \* invocations of main against the same store
MaxWorkers == 2       \* --num_workers is drawn from 1..MaxWorkers
QueueCeiling == 1     \* stands for the soft ceiling 10000 of file_watcher.py:87

(***************************************************************************)
(* Python str helpers.                                                     *)
(***************************************************************************)
Min(a, b) == IF a < b THEN a ELSE b

\* s[i:] of Python with a 0-based i
DropFirst(s, i) == SubSeq(s, Min(i, Len(s)) + 1, Len(s))

\* does old occur in s at the 1-based position i
OccursAt(s, old, i) ==
    /\ i + Len(old) - 1 <= Len(s)
    /\ SubSeq(s, i, i + Len(old) - 1) = old

\* str.replace(old, ""): every non-overlapping occurrence of old, left to
\* right, is removed
RECURSIVE StrReplace(_, _)
StrReplace(s, old) ==
    IF s = <<>> \/ old = <<>> THEN s
    ELSE IF OccursAt(s, old, 1) THEN StrReplace(DropFirst(s, Len(old)), old)
    ELSE <<Head(s)>> \o StrReplace(Tail(s), old)

\* sep.join(list)
RECURSIVE StrJoin(_, _)
StrJoin(list, sep) ==
    IF list = <<>> THEN <<>>
    ELSE IF Len(list) = 1 THEN list[1]
    ELSE list[1] \o sep \o StrJoin(Tail(list), sep)

\* s.split(sep) for a one-token separator: always at least one piece
RECURSIVE StrSplit(_, _)
StrSplit(s, sep) ==
    IF \E i \in 1..Len(s) : s[i] = sep
    THEN LET i == CHOOSE k \in 1..Len(s) :
                     s[k] = sep /\ \A j \in 1..(k - 1) : s[j] # sep
         IN  <<SubSeq(s, 1, i - 1)>> \o StrSplit(SubSeq(s, i + 1, Len(s)), sep)
    ELSE <<s>>

Digits == <<"0", "1", "2", "3", "4", "5", "6", "7", "8", "9">>

\* str(n) for n >= 0
RECURSIVE IntToStr(_)
IntToStr(n) ==
    IF n < 10 THEN <<Digits[n + 1]>>
    ELSE IntToStr(n \div 10) \o <<Digits[(n % 10) + 1]>>

DigitValue(c) == (CHOOSE k \in 1..10 : Digits[k] = c) - 1

\* int(s) for a string of decimal digits
RECURSIVE StrToInt(_)
StrToInt(s) ==
    IF Len(s) = 1 THEN DigitValue(s[1])
    ELSE 10 * StrToInt(SubSeq(s, 1, Len(s) - 1)) + DigitValue(s[Len(s)])

\* bool(s) of a str: only the empty string is false
PyBool(s) == s # ""

\* case folding of re.IGNORECASE on the characters the model uses
Lower(c) ==
    CASE c = "T" -> "t"
      [] c = "M" -> "m"
      [] c = "P" -> "p"
      [] OTHER -> c

LowerStr(s) == [i \in 1..Len(s) |-> Lower(s[i])]

\* os.path.join(a, b) for a relative b
PathJoin(a, b) ==
    IF a = <<>> THEN b
    ELSE IF a[Len(a)] = "/" THEN a \o b
    ELSE a \o <<"/">> \o b

\* os.path.dirname(p): the head of posixpath.split, trailing slashes
\* stripped unless the head is all slashes
RECURSIVE RStripSlash(_)
RStripSlash(s) ==
    IF s # <<>> /\ s[Len(s)] = "/" THEN RStripSlash(SubSeq(s, 1, Len(s) - 1))
    ELSE s

Dirname(p) ==
    LET slashes == {i \in 1..Len(p) : p[i] = "/"}
        i == IF slashes = {} THEN 0
             ELSE CHOOSE k \in slashes : \A j \in slashes : j <= k
        head == SubSeq(p, 1, i)
    IN  IF RStripSlash(head) = <<>> THEN head ELSE RStripSlash(head)


(***************************************************************************)
(* The file systems the runs are made against.  A file system maps each    *)
(* directory path to what os.listdir returns for it, in order; an entry    *)
(* carries what os.path.isfile / isdir, os.stat and open/read answer.      *)
(* ok = FALSE is a file that cannot be read, or a directory that cannot    *)
(* be listed (permission denied).                                          *)
(***************************************************************************)
InDir == <<"/", "d">>                      \* --in_dir

File(name, content, size, ok) ==
    [name |-> name, kind |-> "file", content |-> content, size |-> size, ok |-> ok]

Dir(name, ok) ==
    [name |-> name, kind |-> "dir", content |-> "", size |-> 0, ok |-> ok]

\* the scenario of the specification: a and b share their content
TreeDup ==
    (InDir :> <<File(<<"a">>, "hi", 2, TRUE), File(<<"b">>, "hi", 2, TRUE),
                Dir(<<"s">>, TRUE)>>)
    @@ (<<"/", "d", "/", "s">> :> <<File(<<"c">>, "bye", 3, TRUE)>>)

\* the string of --in_dir occurs again deeper in a path
TreeNested ==
    (InDir :> <<File(<<"a">>, "hi", 2, TRUE), File(<<"b">>, "yo", 2, TRUE),
                Dir(<<"d">>, TRUE)>>)
    @@ (<<"/", "d", "/", "d">> :> <<File(<<"a">>, "bye", 3, TRUE)>>)

\* names that match the pattern tmp at their start and further in
TreeTmp ==
    (InDir :> <<File(<<"a">>, "hi", 2, TRUE),
                File(<<"a", ".", "T", "M", "P">>, "yo", 2, TRUE),
                Dir(<<"t", "m", "p">>, TRUE)>>)
    @@ (<<"/", "d", "/", "t", "m", "p">> :> <<File(<<"c">>, "bye", 3, TRUE)>>)

\* the same with a file that cannot be read
TreeNestedUnreadable ==
    (InDir :> <<File(<<"a">>, "hi", 2, TRUE), File(<<"b">>, "yo", 2, FALSE),
                Dir(<<"d">>, TRUE)>>)
    @@ (<<"/", "d", "/", "d">> :> <<File(<<"a">>, "bye", 3, TRUE)>>)

\* a file that cannot be read
TreeUnreadable ==
    (InDir :> <<File(<<"a">>, "hi", 2, FALSE), File(<<"b">>, "yo", 2, TRUE)>>)

\* a directory that cannot be listed, before a sibling that can
TreeUnlistable ==
    (InDir :> <<File(<<"a">>, "hi", 2, TRUE), Dir(<<"s">>, FALSE),
                Dir(<<"u">>, TRUE)>>)
    @@ (<<"/", "d", "/", "s">> :> <<>>)
    @@ (<<"/", "d", "/", "u">> :> <<File(<<"c">>, "bye", 3, TRUE)>>)

FileSystems ==
    {TreeDup, TreeNested, TreeNestedUnreadable, TreeTmp, TreeUnreadable,
     TreeUnlistable}

\* --exclude, as lists of patterns without metacharacters
ExcludeLists ==
    { <<>>, << <<"t", "m", "p">> >>, << <<"t", "m", "p">>, <<"p">> >> }

ResumeArgs == {"True", "False"}            \* choices of --resume

(***************************************************************************)
(* Pattern.search and the walker's filter.                                 *)
(***************************************************************************)
IgnoreCaseFlag == 2     \* int(re.IGNORECASE), the second argument of search

\* re.compile(pat, re.IGNORECASE).search(s, pos) is not None, for a pattern
\* without metacharacters: pat occurs, case folded, in s at or after pos
PatternSearch(pat, s, pos) ==
    \E i \in (Min(pos, Len(s)) + 1)..(Len(s) + 1) :
        OccursAt(LowerStr(s), LowerStr(pat), i)

\* lines 75-76: the names no pattern filters out.  Pattern.search takes
\* (string, pos), so re.IGNORECASE is passed as the start position
FilterExcluded(names, excludes) ==
    SelectSeq(names, LAMBDA f :
        \A k \in 1..Len(excludes) : ~PatternSearch(excludes[k], f, IgnoreCaseFlag))

\* os.listdir(dir_path) of the file system t
ListDir(t, dir_path) == [i \in 1..Len(t[dir_path]) |-> t[dir_path][i].name]

Entry(t, dir_path, name) ==
    t[dir_path][CHOOSE i \in 1..Len(t[dir_path]) : t[dir_path][i].name = name]

\* the directory a listing fails for
CanList(t, dir_path) ==
    \/ dir_path = InDir
    \/ \E d \in DOMAIN t : \E i \in 1..Len(t[d]) :
           /\ PathJoin(d, t[d][i].name) = dir_path
           /\ t[d][i].ok

\* every regular file of t, with its full path
AllFiles(t) ==
    UNION { { [path |-> PathJoin(d, t[d][i].name), entry |-> t[d][i]] :
                i \in {k \in 1..Len(t[d]) : t[d][k].kind = "file"} } :
            d \in DOMAIN t }

FileAt(t, fpath) == (CHOOSE f \in AllFiles(t) : f.path = fpath).entry

\* _strip_base_path: str.replace removes every occurrence of base_path
_strip_base_path(path, base_path) == StrReplace(path, base_path)

(***************************************************************************)
(* Requests and responses.                                                 *)
(***************************************************************************)
FileFingerprintRequest(fname, last) ==
    [requested_filename |-> fname, last_request |-> last]

FileFingerprintResponse(fname, sha, size, success, last) ==
    [filename |-> fname, sha384 |-> sha, file_size |-> size,
     success |-> success, last_response |-> last]

\* hashlib.sha384 of a content: taken to be free of collisions
Sha384(content) == <<"#", content>>

\* a faulty variant of lines 43-50: the failure response built like the
\* acknowledgement of line 64, with last_response set
FingerprintFailureMarkedLast(t, fpath) ==
    IF FileAt(t, fpath).ok
    THEN FileFingerprintResponse(fpath, Sha384(FileAt(t, fpath).content),
                                 FileAt(t, fpath).size, TRUE, FALSE)
    ELSE FileFingerprintResponse(fpath, <<>>, -1, FALSE, TRUE)

\* lines 28-50: any exception of os.stat, open or read gives the failure
\* response
calculate_fingerprints_regularfile(t, fpath) ==
    IF FileAt(t, fpath).ok
    THEN FileFingerprintResponse(fpath, Sha384(FileAt(t, fpath).content),
                                 FileAt(t, fpath).size, TRUE, FALSE)
    ELSE FileFingerprintResponse(fpath, <<>>, -1, FALSE, FALSE)

\* line 64: the acknowledgement of a termination signal
LastResponse == FileFingerprintResponse(<<>>, <<>>, -1, FALSE, TRUE)

(***************************************************************************)
(* FileDBWrapper.  db_info and file_state are sets of rows; the PRIMARY    *)
(* KEY of each table is enforced by its INSERT.  An operation that can     *)
(* raise gives [ok, rows]: ok = FALSE is the exception, rows unchanged.    *)
(***************************************************************************)
Key(name) == <<name>>

\* lines 9-18 of __init__: raised is the FileExistsError, resume the value
\* kept in self._resume
FileDBWrapperInit(exists, resume) ==
    IF exists /\ ~resume THEN [raised |-> TRUE, resume |-> resume]
    ELSE IF ~exists /\ resume THEN [raised |-> FALSE, resume |-> FALSE]
    ELSE [raised |-> FALSE, resume |-> resume]

_does_metadata_key_exist(info, key) ==
    Cardinality({r \in info : r.key = key}) = 1

\* UPDATE db_info SET value = ?1 WHERE key = ?2
SqlUpdateInfo(info, p1, p2) ==
    { IF r.key = p2 THEN [r EXCEPT !.value = p1] ELSE r : r \in info }

\* INSERT INTO db_info (key, value) VALUES (?1, ?2)
SqlInsertInfo(info, p1, p2) ==
    IF \E r \in info : r.key = p1
    THEN [ok |-> FALSE, rows |-> info]
    ELSE [ok |-> TRUE, rows |-> info \cup {[key |-> p1, value |-> p2]}]

\* lines 47-56: the UPDATE is executed with the parameters (key, value)
_write_or_update_single_metadatum(info, key, value) ==
    IF _does_metadata_key_exist(info, key)
    THEN SqlUpdateInfo(info, key, value)
    ELSE SqlInsertInfo(info, key, value).rows

\* lines 58-61
_write_single_metadatum(info, key, value) == SqlInsertInfo(info, key, value)

\* lines 63-67 (an IndexError when the key is absent: never the case where
\* the model calls it)
get_metadata_value(info, key) == (CHOOSE r \in info : r.key = key).value

HasMetadata(info, key) == \E r \in info : r.key = key

\* lines 69-72
update_start_metadata(info) ==
    LET num_restarts == StrToInt(get_metadata_value(info, Key("number_restarts"))) + 1
        info1 == _write_or_update_single_metadatum(
                     info, Key("number_restarts"), IntToStr(num_restarts))
    IN  _write_or_update_single_metadatum(
            info1, Key("last_resume_time"), IntToStr(num_restarts))

\* a sequence of inserts, stopped by the first that raises
RECURSIVE InsertAll(_, _)
InsertAll(info, pairs) ==
    IF pairs = <<>> THEN [ok |-> TRUE, rows |-> info]
    ELSE LET one == _write_single_metadatum(info, pairs[1][1], pairs[1][2])
         IN  IF one.ok THEN InsertAll(one.rows, Tail(pairs)) ELSE one

\* strftime("%Y-%m-%d %H:%M:%S") of datetime.now(): the time of run r
Timestamp(r) == <<"T">> \o IntToStr(r)

\* lines 74-79
write_start_metadata(info, dir_base, start_time, excludes) ==
    InsertAll(info, << <<Key("dir_base"), dir_base>>,
                       <<Key("start_time"), start_time>>,
                       <<Key("last_resume_time"), start_time>>,
                       <<Key("number_restarts"), <<"0">> >>,
                       <<Key("excludes"), StrJoin(excludes, <<";">>)>> >>)

\* lines 81-82
write_end_metadata(info, end_time) ==
    _write_single_metadatum(info, Key("end_time"), end_time)

\* lines 84-88
does_file_exist(rows, filename) ==
    Cardinality({r \in rows : r.filename = filename}) = 1

\* a faulty variant: file_state created without its PRIMARY KEY
SqlInsertFileNoKey(rows, row) == [ok |-> TRUE, rows |-> rows \cup {row}]

\* INSERT INTO file_state: filename is the PRIMARY KEY (lines 22-27)
SqlInsertFile(rows, row) ==
    IF \E r \in rows : r.filename = row.filename
    THEN [ok |-> FALSE, rows |-> rows]
    ELSE [ok |-> TRUE, rows |-> rows \cup {row}]

\* lines 90-97: the IntegrityError is printed and raised again
record_file(rows, filename, sha384, file_size) ==
    SqlInsertFile(rows, [filename |-> filename, directory |-> Dirname(filename),
                         sha384 |-> sha384, filesize |-> file_size])

\* lines 100-108 and find_duplicates.py lines 14-22
get_duplicate_sha384(rows) ==
    { h \in {r.sha384 : r \in rows} :
        Cardinality({r \in rows : r.sha384 = h}) > 1 }

get_files_for_sha384hash(rows, sha384) ==
    { r.filename : r \in {x \in rows : x.sha384 = sha384} }

(***************************************************************************)
(* The state.                                                              *)
(***************************************************************************)
VARIABLES
    fs,             \* the file system under --in_dir (it does not change)
    run,            \* how many times main has been started
    args,           \* the command line of the current run
    db_exists,      \* os.path.exists(--filedb)
    file_state,     \* rows of the table file_state
    db_info,        \* rows of the table db_info
    main_pc,        \* where the main thread is
    is_resume,      \* filedb.is_resume() of the current run
    exclude,        \* args.exclude after lines 136-145, compiled at line 147
    stack,          \* the calls of list_and_process_directory in progress
    sent,           \* termination requests put by line 162
    input_queue,
    output_queue,
    worker_pc,      \* per worker thread: off, wait, work, stopped
    worker_req,     \* the request a worker holds
    writer_pc,      \* the thread of write_file_state: off, run, exited, died
    num_workers,    \* the local num_workers of write_file_state
    dup_pc,         \* where main of find_duplicates.py is: idle, done, crashed
    dup_log,        \* what --dup_log holds
    \* history, read by the properties only
    enqueued,       \* files put on input_queue by this run
    failed,         \* files whose digest failed in this run
    prev_enqueued,  \* files put on input_queue by earlier runs
    prev_failed,    \* files whose digest failed in an earlier run
    table_at_start, \* file_state when this run started
    info_at_start,  \* db_info when this run started
    existed_at_start, \* os.path.exists(--filedb) when this run started
    resumes,        \* how many runs were resume runs
    list_failed,    \* os.listdir raised in this run
    end_written,    \* this run has written end_time
    joined,         \* the joins of lines 165-167 have returned in this run
    prev_complete,  \* the joins returned in every earlier run
    prev_exited,    \* the writer left its loop in every earlier run
    dup_table,      \* file_state when find_duplicates.py was started
    acks,           \* termination responses the writer has taken in this run
    first_exclude   \* args.exclude of the run that created the store

store == <<db_exists, file_state, db_info>>
threads == <<worker_pc, worker_req, writer_pc, num_workers>>
queues == <<input_queue, output_queue>>
walker == <<stack, sent>>
runinfo == <<fs, run, args, is_resume, exclude>>
history == <<enqueued, failed, prev_enqueued, prev_failed, table_at_start,
             info_at_start, existed_at_start, resumes, list_failed, end_written, joined,
             prev_complete, prev_exited>>
finder == <<dup_pc, dup_log, dup_table>>
vars == <<store, threads, queues, walker, runinfo, main_pc, history, finder,
          acks, first_exclude>>

Workers == 1..MaxWorkers

\* a call of list_and_process_directory: before line 73 (listed = FALSE) or
\* in its loops, with the files and directories still to go; checked says
\* that the first file passed line 84 and waits at lines 87-90
Frame(dir_path) ==
    [dir_path |-> dir_path, listed |-> FALSE, files |-> <<>>, subdirs |-> <<>>,
     checked |-> FALSE]

NoRequest == FileFingerprintRequest(<<>>, FALSE)

\* --dup_log before find_duplicates.py has written it
NotWritten == [written |-> FALSE, groups |-> {}]

Init ==
    /\ fs \in FileSystems
    /\ run = 0
    /\ args = [resume |-> "False", exclude |-> <<>>, num_workers |-> 1]
    /\ db_exists = FALSE
    /\ file_state = {}
    /\ db_info = {}
    /\ main_pc = "idle"
    /\ is_resume = FALSE
    /\ exclude = <<>>
    /\ stack = <<>>
    /\ sent = 0
    /\ input_queue = <<>>
    /\ output_queue = <<>>
    /\ worker_pc = [i \in Workers |-> "off"]
    /\ worker_req = [i \in Workers |-> NoRequest]
    /\ writer_pc = "off"
    /\ num_workers = 0
    /\ enqueued = {}
    /\ failed = {}
    /\ prev_enqueued = {}
    /\ prev_failed = {}
    /\ table_at_start = {}
    /\ info_at_start = {}
    /\ existed_at_start = FALSE
    /\ resumes = 0
    /\ list_failed = FALSE
    /\ end_written = FALSE
    /\ joined = FALSE
    /\ prev_complete = TRUE
    /\ prev_exited = TRUE
    /\ dup_pc = "idle"
    /\ dup_log = NotWritten
    /\ dup_table = {}
    /\ acks = 0
    /\ first_exclude = <<>>

(***************************************************************************)
(* main, lines 116-157: the command line is read, the store opened, the    *)
(* start metadata written or updated, the threads started.  A run starts   *)
(* when no process runs: at first, after main has returned, or after main  *)
(* has died (the threads it left blocked are killed with the process).     *)
(***************************************************************************)
\* lines 135-145, given the store opened without FileExistsError
StartMetadata(info, resume, a) ==
    IF resume THEN update_start_metadata(info)
    ELSE write_start_metadata(info, InDir, Timestamp(run + 1), a.exclude).rows

\* a faulty variant: line 140 left out, the command line's list is kept
EffectiveExcludeSupplied(info, resume, a) == a.exclude

\* lines 136-145: the exclusion list the run works with
EffectiveExclude(info, resume, a) ==
    IF resume THEN StrSplit(get_metadata_value(info, Key("excludes")), ";")
    ELSE a.exclude

StartRun ==
    /\ main_pc \in {"idle", "done", "crashed"}
    /\ run < MaxRuns
    /\ \E r \in ResumeArgs, e \in ExcludeLists, n \in 1..MaxWorkers :
         LET a == [resume |-> r, exclude |-> e, num_workers |-> n]
             db == FileDBWrapperInit(db_exists, PyBool(a.resume))
         IN  /\ args' = a
             /\ run' = run + 1
             /\ input_queue' = <<>>
             /\ output_queue' = <<>>
             /\ worker_req' = [i \in Workers |-> NoRequest]
             /\ sent' = 0
             /\ enqueued' = {}
             /\ failed' = {}
             /\ prev_enqueued' = prev_enqueued \cup enqueued
             /\ prev_failed' = prev_failed \cup failed
             /\ table_at_start' = file_state
             /\ info_at_start' = db_info
             /\ existed_at_start' = db_exists
             /\ dup_pc' = "idle"
             /\ acks' = 0
             /\ UNCHANGED <<dup_log, dup_table>>
             /\ list_failed' = FALSE
             /\ end_written' = FALSE
             /\ joined' = FALSE
             /\ prev_complete' = (prev_complete /\ (run = 0 \/ joined))
             /\ prev_exited' = (prev_exited /\ (run = 0 \/ writer_pc = "exited"))
             /\ UNCHANGED <<fs, file_state>>
             /\ IF db.raised
                THEN /\ main_pc' = "crashed"
                     /\ stack' = <<>>
                     /\ worker_pc' = [i \in Workers |-> "off"]
                     /\ writer_pc' = "off"
                     /\ num_workers' = 0
                     /\ UNCHANGED <<db_exists, db_info, is_resume, exclude, resumes,
                                    first_exclude>>
                ELSE /\ main_pc' = "walk"
                     /\ db_exists' = TRUE
                     /\ is_resume' = db.resume
                     /\ exclude' = EffectiveExclude(db_info, db.resume, a)
                     /\ db_info' = StartMetadata(db_info, db.resume, a)
                     /\ resumes' = IF db.resume THEN resumes + 1 ELSE resumes
                     /\ first_exclude' = IF db.resume THEN first_exclude ELSE a.exclude
                     /\ stack' = <<Frame(InDir)>>
                     /\ worker_pc' = [i \in Workers |->
                                        IF i <= n THEN "wait" ELSE "off"]
                     /\ writer_pc' = "run"
                     /\ num_workers' = n

(***************************************************************************)
(* list_and_process_directory, lines 71-98, run by the main thread.        *)
(***************************************************************************)
Top == stack[Len(stack)]

SetTop(f) == [stack EXCEPT ![Len(stack)] = f]

IsFile(t, dir_path, name) == Entry(t, dir_path, name).kind = "file"

IsDir(t, dir_path, name) == Entry(t, dir_path, name).kind = "dir"

\* lines 73-79.  os.listdir raises for a directory that cannot be listed;
\* nothing catches it, so it ends every call in progress and main
WalkList ==
    /\ UNCHANGED <<finder, acks, first_exclude>>
    /\ main_pc = "walk"
    /\ stack # <<>>
    /\ ~Top.listed
    /\ IF CanList(fs, Top.dir_path)
       THEN LET file_list == FilterExcluded(ListDir(fs, Top.dir_path), exclude)
            IN  /\ stack' = SetTop([Top EXCEPT
                       !.listed = TRUE,
                       !.files = SelectSeq(file_list,
                                     LAMBDA fn : IsFile(fs, Top.dir_path, fn)),
                       !.subdirs = SelectSeq(file_list,
                                     LAMBDA fn : IsDir(fs, Top.dir_path, fn))])
                /\ UNCHANGED <<main_pc, list_failed>>
       ELSE /\ stack' = <<>>
            /\ main_pc' = "crashed"
            /\ list_failed' = TRUE
    /\ UNCHANGED <<store, threads, queues, sent, runinfo, enqueued, failed,
                   prev_enqueued, prev_failed, table_at_start, info_at_start, existed_at_start,
                   resumes, end_written, joined, prev_complete, prev_exited>>

\* lines 81-86: the file already recorded is skipped
WalkCheck ==
    /\ UNCHANGED <<finder, acks, first_exclude>>
    /\ main_pc = "walk"
    /\ stack # <<>>
    /\ Top.listed
    /\ Top.files # <<>>
    /\ ~Top.checked
    /\ LET fname == Head(Top.files)
           fpath_name_in_db == _strip_base_path(PathJoin(Top.dir_path, fname), InDir)
       IN  IF does_file_exist(file_state, fpath_name_in_db)
           THEN stack' = SetTop([Top EXCEPT !.files = Tail(Top.files)])
           ELSE stack' = SetTop([Top EXCEPT !.checked = TRUE])
    /\ UNCHANGED <<store, threads, queues, sent, runinfo, main_pc, history>>

\* a faulty variant: the loop of lines 87-89 left out
CanPutAlways(queue) == TRUE

\* lines 87-93: the loop at line 87 lets the put happen only with the queue
\* at or under the ceiling (main is the only producer)
CanPut(queue) == Len(queue) <= QueueCeiling

WalkPut ==
    /\ UNCHANGED <<finder, acks, first_exclude>>
    /\ main_pc = "walk"
    /\ stack # <<>>
    /\ Top.checked
    /\ CanPut(input_queue)
    /\ LET fpath == PathJoin(Top.dir_path, Head(Top.files))
       IN  /\ input_queue' = Append(input_queue, FileFingerprintRequest(fpath, FALSE))
           /\ enqueued' = enqueued \cup {fpath}
    /\ stack' = SetTop([Top EXCEPT !.files = Tail(Top.files), !.checked = FALSE])
    /\ UNCHANGED <<store, threads, output_queue, sent, runinfo, main_pc, failed,
                   prev_enqueued, prev_failed, table_at_start, info_at_start, existed_at_start,
                   resumes, list_failed, end_written, joined, prev_complete,
                   prev_exited>>

\* lines 95-96: the call for the next subdirectory
WalkRecurse ==
    /\ UNCHANGED <<finder, acks, first_exclude>>
    /\ main_pc = "walk"
    /\ stack # <<>>
    /\ Top.listed
    /\ Top.files = <<>>
    /\ Top.subdirs # <<>>
    /\ stack' = Append(SetTop([Top EXCEPT !.subdirs = Tail(Top.subdirs)]),
                       Frame(PathJoin(Top.dir_path, Head(Top.subdirs))))
    /\ UNCHANGED <<store, threads, queues, sent, runinfo, main_pc, history>>

\* line 98; the return of the first call brings main to line 160
WalkReturn ==
    /\ UNCHANGED <<finder, acks, first_exclude>>
    /\ main_pc = "walk"
    /\ stack # <<>>
    /\ Top.listed
    /\ Top.files = <<>>
    /\ Top.subdirs = <<>>
    /\ stack' = SubSeq(stack, 1, Len(stack) - 1)
    /\ main_pc' = IF Len(stack) = 1 THEN "sentinels" ELSE "walk"
    /\ UNCHANGED <<store, threads, queues, sent, runinfo, history>>

(***************************************************************************)
(* main, lines 160-168.                                                    *)
(***************************************************************************)
\* a faulty variant: the termination request is put at the head of the queue
MainSentinelAtHead ==
    /\ UNCHANGED <<finder, acks, first_exclude>>
    /\ main_pc = "sentinels"
    /\ input_queue' = <<FileFingerprintRequest(<<>>, TRUE)>> \o input_queue
    /\ sent' = sent + 1
    /\ main_pc' = IF sent + 1 = args.num_workers THEN "join" ELSE "sentinels"
    /\ UNCHANGED <<store, threads, output_queue, stack, runinfo, history>>

\* lines 161-162: one termination request per worker thread
MainSentinel ==
    /\ UNCHANGED <<finder, acks, first_exclude>>
    /\ main_pc = "sentinels"
    /\ input_queue' = Append(input_queue, FileFingerprintRequest(<<>>, TRUE))
    /\ sent' = sent + 1
    /\ main_pc' = IF sent + 1 = args.num_workers THEN "join" ELSE "sentinels"
    /\ UNCHANGED <<store, threads, output_queue, stack, runinfo, history>>

\* a thread that join returns for: it returned or an exception ended it
ThreadEnded(pc) == pc \in {"stopped", "exited", "died"}

\* a faulty variant: the join of line 167 left out, main waits for the
\* worker threads only
MainJoinWorkersOnly ==
    /\ UNCHANGED <<finder, acks, first_exclude>>
    /\ main_pc = "join"
    /\ \A i \in 1..args.num_workers : ThreadEnded(worker_pc[i])
    /\ main_pc' = "joined"
    /\ joined' = TRUE
    /\ UNCHANGED <<store, threads, queues, walker, runinfo, enqueued, failed,
                   prev_enqueued, prev_failed, table_at_start, info_at_start,
                   existed_at_start, resumes, list_failed, end_written,
                   prev_complete, prev_exited>>

\* lines 165-167
MainJoin ==
    /\ UNCHANGED <<finder, acks, first_exclude>>
    /\ main_pc = "join"
    /\ \A i \in 1..args.num_workers : ThreadEnded(worker_pc[i])
    /\ ThreadEnded(writer_pc)
    /\ main_pc' = "joined"
    /\ joined' = TRUE
    /\ UNCHANGED <<store, threads, queues, walker, runinfo, enqueued, failed,
                   prev_enqueued, prev_failed, table_at_start, info_at_start, existed_at_start,
                   resumes, list_failed, end_written, prev_complete, prev_exited>>

\* line 168: the INSERT of end_time raises when the key is there already
MainEnd ==
    /\ UNCHANGED <<finder, acks, first_exclude>>
    /\ main_pc = "joined"
    /\ LET w == write_end_metadata(db_info, Timestamp(run))
       IN  /\ db_info' = w.rows
           /\ main_pc' = IF w.ok THEN "done" ELSE "crashed"
           /\ end_written' = w.ok
    /\ UNCHANGED <<db_exists, file_state, threads, queues, walker, runinfo,
                   enqueued, failed, prev_enqueued, prev_failed, table_at_start,
                   info_at_start, existed_at_start, resumes, list_failed, joined, prev_complete,
                   prev_exited>>

(***************************************************************************)
(* file_fingerprint, lines 52-66: worker thread idx.                       *)
(***************************************************************************)
\* line 54
WorkerGet(idx) ==
    /\ UNCHANGED <<finder, acks, first_exclude>>
    /\ worker_pc[idx] = "wait"
    /\ input_queue # <<>>
    /\ worker_req' = [worker_req EXCEPT ![idx] = Head(input_queue)]
    /\ input_queue' = Tail(input_queue)
    /\ worker_pc' = [worker_pc EXCEPT ![idx] = "work"]
    /\ UNCHANGED <<store, writer_pc, num_workers, output_queue, walker, runinfo,
                   main_pc, history>>

\* lines 55-66
WorkerRespond(idx) ==
    /\ UNCHANGED <<finder, acks, first_exclude>>
    /\ worker_pc[idx] = "work"
    /\ LET req == worker_req[idx]
           resp == IF req.last_request THEN LastResponse
                   ELSE calculate_fingerprints_regularfile(fs, req.requested_filename)
       IN  /\ output_queue' = Append(output_queue, resp)
           /\ worker_pc' = [worker_pc EXCEPT ![idx] =
                               IF req.last_request THEN "stopped" ELSE "wait"]
           /\ failed' = IF ~req.last_request /\ ~resp.success
                        THEN failed \cup {req.requested_filename} ELSE failed
    /\ worker_req' = [worker_req EXCEPT ![idx] = NoRequest]
    /\ UNCHANGED <<store, writer_pc, num_workers, input_queue, walker, runinfo,
                   main_pc, enqueued, prev_enqueued, prev_failed, table_at_start,
                   info_at_start, existed_at_start, resumes, list_failed, end_written, joined,
                   prev_complete, prev_exited>>

(***************************************************************************)
(* write_file_state, lines 100-113: the writer thread.                     *)
(***************************************************************************)
\* a faulty variant: line 105 tests for a file response, not for its success
WriterStepRecordsAll ==
    /\ UNCHANGED <<finder, first_exclude>>
    /\ writer_pc = "run"
    /\ output_queue # <<>>
    /\ LET resp == Head(output_queue)
           fname == StrReplace(resp.filename, InDir)
           rec == record_file(file_state, fname, resp.sha384, resp.file_size)
       IN  IF ~resp.last_response
           THEN /\ file_state' = rec.rows
                /\ writer_pc' = IF rec.ok THEN "run" ELSE "died"
                /\ UNCHANGED <<num_workers, acks>>
           ELSE IF resp.last_response
           THEN /\ num_workers' = num_workers - 1
                /\ acks' = acks + 1
                /\ writer_pc' = IF num_workers - 1 > 0 THEN "run" ELSE "exited"
                /\ UNCHANGED file_state
           ELSE UNCHANGED <<file_state, num_workers, writer_pc, acks>>
    /\ output_queue' = Tail(output_queue)
    /\ UNCHANGED <<db_exists, db_info, worker_pc, worker_req, input_queue, walker,
                   runinfo, main_pc, history>>

\* a faulty variant: line 112 is an else, every response without success
\* counts as a termination response
WriterStepCountsFailures ==
    /\ UNCHANGED <<finder, first_exclude>>
    /\ writer_pc = "run"
    /\ output_queue # <<>>
    /\ LET resp == Head(output_queue)
           fname == StrReplace(resp.filename, InDir)
           rec == record_file(file_state, fname, resp.sha384, resp.file_size)
       IN  IF resp.success
           THEN /\ file_state' = rec.rows
                /\ writer_pc' = IF rec.ok THEN "run" ELSE "died"
                /\ UNCHANGED <<num_workers, acks>>
           ELSE IF TRUE
           THEN /\ num_workers' = num_workers - 1
                /\ acks' = acks + 1
                /\ writer_pc' = IF num_workers - 1 > 0 THEN "run" ELSE "exited"
                /\ UNCHANGED file_state
           ELSE UNCHANGED <<file_state, num_workers, writer_pc, acks>>
    /\ output_queue' = Tail(output_queue)
    /\ UNCHANGED <<db_exists, db_info, worker_pc, worker_req, input_queue, walker,
                   runinfo, main_pc, history>>

\* lines 104-113, and the test of line 103 that follows.  The exception of
\* record_file is caught nowhere: it ends the thread
WriterStep ==
    /\ UNCHANGED <<finder, first_exclude>>
    /\ writer_pc = "run"
    /\ output_queue # <<>>
    /\ LET resp == Head(output_queue)
           fname == StrReplace(resp.filename, InDir)
           rec == record_file(file_state, fname, resp.sha384, resp.file_size)
       IN  IF resp.success
           THEN /\ file_state' = rec.rows
                /\ writer_pc' = IF rec.ok THEN "run" ELSE "died"
                /\ UNCHANGED <<num_workers, acks>>
           ELSE IF resp.last_response
           THEN /\ num_workers' = num_workers - 1
                /\ acks' = acks + 1
                /\ writer_pc' = IF num_workers - 1 > 0 THEN "run" ELSE "exited"
                /\ UNCHANGED file_state
           ELSE UNCHANGED <<file_state, num_workers, writer_pc, acks>>
    /\ output_queue' = Tail(output_queue)
    /\ UNCHANGED <<db_exists, db_info, worker_pc, worker_req, input_queue, walker,
                   runinfo, main_pc, history>>

(***************************************************************************)
(* find_duplicates.py, main, lines 9-25: run by the operator when no run   *)
(* of file_watcher.py is in progress.                                      *)
(***************************************************************************)
\* sql_wrapper.py line 8: the parameters of __init__ after self; none has a
\* default value
FileDBWrapperParams == <<"db_path", "resume">>

\* find_duplicates.py line 14: the arguments of sql.FileDBWrapper(args.filedb)
FindDuplicatesCallArgs == <<"filedb">>

\* a call goes through when every parameter gets an argument; otherwise it
\* raises TypeError before the body of the function runs
CallBinds(params, actuals) == Len(actuals) = Len(params)

\* lines 15-22: one entry per digest of get_duplicate_sha384
all_duplicates(rows) ==
    { [sha384 |-> h, files |-> get_files_for_sha384hash(rows, h)] :
        h \in get_duplicate_sha384(rows) }

\* lines 14-25: the TypeError of line 14 is caught nowhere and --dup_log is
\* opened at line 24 only
FindDuplicates ==
    /\ main_pc \in {"done", "crashed"}
    /\ dup_pc = "idle"
    /\ dup_table' = file_state
    /\ UNCHANGED <<acks, first_exclude>>
    /\ IF CallBinds(FileDBWrapperParams, FindDuplicatesCallArgs)
       THEN /\ dup_pc' = "done"
            /\ dup_log' = [written |-> TRUE, groups |-> all_duplicates(file_state)]
       ELSE /\ dup_pc' = "crashed"
            /\ UNCHANGED dup_log
    /\ UNCHANGED <<store, threads, queues, walker, runinfo, main_pc, history>>

(***************************************************************************)
(* The specification.                                                      *)
(***************************************************************************)
Main ==
    \/ WalkList
    \/ WalkCheck
    \/ WalkPut
    \/ WalkRecurse
    \/ WalkReturn
    \/ MainSentinel
    \/ MainJoin
    \/ MainEnd

Worker(idx) == WorkerGet(idx) \/ WorkerRespond(idx)

\* the steps of the running process
Process == Main \/ WriterStep \/ \E idx \in Workers : Worker(idx)

Next == StartRun \/ Process \/ FindDuplicates

Spec == Init /\ [][Next]_vars

\* the threads are scheduled fairly; when a run is started is up to the operator
FairSpec ==
    /\ Spec
    /\ WF_vars(Main)
    /\ WF_vars(WriterStep)
    /\ \A idx \in Workers : WF_vars(Worker(idx))

(***************************************************************************)
(* What the properties speak of.                                           *)
(***************************************************************************)
\* the number of worker threads of the current run
N == args.num_workers

\* a path below --in_dir, relative to it
RelPath(path) == SubSeq(path, Len(InDir) + 1, Len(path))

\* the names of the entries on a path below --in_dir
Components(path) ==
    IF Len(path) <= Len(InDir) THEN <<>>
    ELSE StrSplit(SubSeq(path, Len(InDir) + 2, Len(path)), "/")

\* a pattern of the list matches the name, at any position, in any case
Matches(name, excludes) ==
    \E k \in 1..Len(excludes) : PatternSearch(excludes[k], name, 0)

\* an entry on the path matches a pattern
PathExcluded(path, excludes) ==
    \E j \in 1..Len(Components(path)) : Matches(Components(path)[j], excludes)

FileNames(rows) == {r.filename : r \in rows}

\* the key the walker and the writer compute for a path
StoreKey(path) == _strip_base_path(path, InDir)

\* there is a row for the file f, under its path relative to --in_dir
Recorded(f) ==
    \E r \in file_state :
        /\ r.filename = RelPath(f.path)
        /\ r.sha384 = Sha384(f.entry.content)

\* there is a row for the file f under its store key
RecordedUnderKey(f) ==
    \E r \in file_state :
        /\ r.filename = StoreKey(f.path)
        /\ r.sha384 = Sha384(f.entry.content)
        /\ r.filesize = f.entry.size

IsFailure(resp) == ~resp.success /\ ~resp.last_response

\* the list persisted by the first run, as line 138 reads it back
StoredExclude == StrSplit(get_metadata_value(db_info, Key("excludes")), ";")

\* the walker's filter with the list excl lets every entry on the path through
PassesFilter(path, excl) ==
    \A j \in 1..Len(Components(path)) : \A k \in 1..Len(excl) :
        ~PatternSearch(excl[k], Components(path)[j], IgnoreCaseFlag)

WalkFinished == main_pc \in {"sentinels", "join", "joined", "done"}

WorkersStopped == \A i \in 1..N : worker_pc[i] = "stopped"

(***************************************************************************)
(* The properties.                                                         *)
(***************************************************************************)
\* C1: once main has put its N termination requests, the run cannot come to
\* rest before the joins return, and when they return every worker has
\* stopped on a termination request and the writer has left its loop with
\* its countdown at zero.
C1_TerminationLiveness ==
    /\ main_pc = "join" => ENABLED Process
    /\ main_pc = "joined" =>
           /\ WorkersStopped
           /\ writer_pc = "exited"
           /\ num_workers = 0

\* C2: when the joins of a run that started without a store have returned,
\* file_state holds one row for each regular file under --in_dir that no
\* pattern excludes and that can be digested, under the file's path relative
\* to --in_dir, and no other row.
C2_Completeness ==
    (main_pc \in {"joined", "done"} /\ ~is_resume) =>
        /\ FileNames(file_state) =
               { RelPath(f.path) :
                   f \in { g \in AllFiles(fs) :
                             g.entry.ok /\ ~PathExcluded(g.path, exclude) } }
        /\ \A f \in AllFiles(fs) :
               (f.entry.ok /\ ~PathExcluded(f.path, exclude)) => Recorded(f)

\* C3: on a resume run a file is put on the queue only if its store key was
\* not recorded; after earlier runs that completed with no failure the run
\* adds no row; and a file that an earlier completed run had put on the
\* queue is put on it again only if its digest had failed.
C3_IdempotentResume ==
    is_resume =>
        /\ \A p \in enqueued : StoreKey(p) \notin FileNames(table_at_start)
        /\ (prev_complete /\ prev_exited /\ prev_failed = {}) =>
               file_state = table_at_start
        /\ prev_complete => (enqueued \cap prev_enqueued) \subseteq prev_failed

\* C4: number_restarts is 0 after the fresh run and one more after every
\* resume run: it is the number of resume runs made against the store.
C4_RestartCounter ==
    HasMetadata(db_info, Key("number_restarts")) =>
        get_metadata_value(db_info, Key("number_restarts")) = IntToStr(resumes)

\* C5: in a resume run the persisted excludes value is the one the run found,
\* the walker works with the list read back from it whatever the command
\* line gives: no file that list filters out is put on the queue, and once
\* the walk has finished every file it lets through whose key is not
\* recorded has been put on the queue.
C5_ExclusionStability ==
    is_resume =>
        /\ get_metadata_value(db_info, Key("excludes")) =
               get_metadata_value(info_at_start, Key("excludes"))
        /\ exclude = StoredExclude
        /\ \A p \in enqueued : PassesFilter(p, StoredExclude)
        /\ WalkFinished =>
               \A f \in AllFiles(fs) :
                   (/\ PassesFilter(f.path, StoredExclude)
                    /\ StoreKey(f.path) \notin FileNames(file_state))
                       => f.path \in enqueued

\* a resume run given another list than the persisted one has finished its
\* walk without a file that only the persisted list filters out
C5_Witness ==
    /\ is_resume
    /\ WalkFinished
    /\ args.exclude # exclude
    /\ \A k \in 1..Len(exclude) : exclude[k] # <<>>
    /\ \E f \in AllFiles(fs) :
           /\ PassesFilter(f.path, args.exclude)
           /\ ~PassesFilter(f.path, StoredExclude)
           /\ StoreKey(f.path) \notin FileNames(file_state)
           /\ f.path \notin enqueued

\* C6: the response for a file that cannot be digested has success FALSE, an
\* empty digest and size -1; the worker that made it waits for its next
\* request; the writer that takes it keeps running and leaves the store and
\* its countdown as they are; the writer thread is never ended by such a
\* response; and when the joins return after the writer has left its loop,
\* every file put on the queue whose digest succeeded is recorded although a
\* digest failed.
C6_FailureIsolation ==
    /\ [](\A i \in 1..Len(output_queue) :
            LET resp == output_queue[i]
            IN  /\ ~resp.last_response =>
                       (resp.success <=> FileAt(fs, resp.filename).ok)
                /\ ~resp.success => (resp.sha384 = <<>> /\ resp.file_size = -1))
    /\ [][\A idx \in Workers :
            (/\ worker_pc[idx] = "work"
             /\ worker_pc'[idx] # "work"
             /\ run' = run
             /\ ~worker_req[idx].last_request
             /\ ~FileAt(fs, worker_req[idx].requested_filename).ok)
                => (/\ worker_pc'[idx] = "wait"
                    /\ IsFailure(output_queue'[Len(output_queue')])
                    /\ UNCHANGED <<store, writer_pc, num_workers>>)]_vars
    /\ [][(/\ writer_pc = "run"
           /\ output_queue # <<>>
           /\ output_queue' = Tail(output_queue)
           /\ run' = run
           /\ IsFailure(Head(output_queue)))
              => (/\ writer_pc' = "run"
                  /\ UNCHANGED <<store, num_workers>>)]_vars
    /\ [][(writer_pc = "run" /\ writer_pc' = "died") =>
             Head(output_queue).success]_vars
    /\ []((joined /\ writer_pc = "exited" /\ failed # {}) =>
            \A f \in AllFiles(fs) :
                (f.path \in enqueued /\ f.entry.ok) => RecordedUnderKey(f))

\* the joins have returned in a run where a digest failed and another file
\* of the queue has been recorded
C6_Witness ==
    /\ joined
    /\ writer_pc = "exited"
    /\ failed # {}
    /\ \E f \in AllFiles(fs) :
           f.path \in enqueued /\ f.entry.ok /\ RecordedUnderKey(f)

\* C7: an entry whose name matches a pattern, at any position and in any
\* case, is never put on the queue and never descended into, and the filter
\* of a listing keeps every name that matches no pattern.
C7_ExclusionFiltering ==
    /\ \A p \in enqueued \cup {stack[i].dir_path : i \in 1..Len(stack)} :
           ~PathExcluded(p, exclude)
    /\ main_pc = "walk" =>
           \A d \in DOMAIN fs : \A i \in 1..Len(ListDir(fs, d)) :
               ~Matches(ListDir(fs, d)[i], exclude) =>
                   \E j \in 1..Len(FilterExcluded(ListDir(fs, d), exclude)) :
                       FilterExcluded(ListDir(fs, d), exclude)[j] = ListDir(fs, d)[i]

\* C8: file_state never holds two rows with one filename, no row is ever
\* changed or removed, and the writer's record_file for a filename that is
\* recorded raises (the thread ends) and leaves every row as it is.
C8_AppendOnly ==
    /\ [](\A r1, r2 \in file_state : r1.filename = r2.filename => r1 = r2)
    /\ [][file_state \subseteq file_state']_vars
    /\ [][(/\ writer_pc = "run"
           /\ output_queue # <<>>
           /\ output_queue' = Tail(output_queue)
           /\ run' = run
           /\ Head(output_queue).success
           /\ StoreKey(Head(output_queue).filename) \in FileNames(file_state))
              => (file_state' = file_state /\ writer_pc' = "died")]_vars

\* record_file has raised for a filename that was recorded with another digest
C8_Witness ==
    /\ writer_pc = "died"
    /\ \E f \in AllFiles(fs) :
           /\ f.path \in enqueued
           /\ StoreKey(f.path) \in FileNames(file_state)
           /\ ~RecordedUnderKey(f)

\* C9: a run whose writer thread was ended by the error of record_file does
\* not go on to be marked finished: it writes no end_time and main does not
\* return normally.
C9_StoreErrorIsFatal ==
    writer_pc = "died" => (~end_written /\ main_pc # "done")

\* C10: after a listing has failed the run still comes to its end: when no
\* thread can take a step, main has put all N termination requests and the
\* workers and the writer have ended.
C10_ListingFailureIsScoped ==
    (list_failed /\ ~ENABLED Process) =>
        /\ sent = N
        /\ WorkersStopped
        /\ ThreadEnded(writer_pc)

\* C11: in a run started with --resume False against a store path that
\* exists, main has failed, no worker thread and no writer thread has been
\* started, and file_state and db_info are what they were at the start.
C11_ResumePermission ==
    (run > 0 /\ existed_at_start /\ args.resume = "False") =>
        /\ main_pc = "crashed"
        /\ \A i \in Workers : worker_pc[i] = "off"
        /\ writer_pc = "off"
        /\ file_state = table_at_start
        /\ db_info = info_at_start

\* C12: in every run, fresh or resumed, once the joins have returned and
\* main has gone through line 168, write_end_metadata has succeeded and
\* db_info holds end_time.
C12_EndTimeWritten ==
    (joined /\ main_pc # "joined") =>
        /\ main_pc = "done"
        /\ end_written
        /\ HasMetadata(db_info, Key("end_time"))

\* C13: the step of a run that writes end_time is taken in a state where
\* every worker thread of the run has stopped and the writer thread has ended
\* (it left its loop, or an exception ended it); while end_time of the run is
\* written it is the run's time stamp and these threads stay ended; and no
\* step after it changes file_state.
C13_EndTimeOrdering ==
    /\ [][(~end_written /\ end_written') =>
             /\ \A i \in 1..N : worker_pc[i] = "stopped"
             /\ writer_pc \in {"exited", "died"}]_vars
    /\ [](end_written =>
             /\ get_metadata_value(db_info, Key("end_time")) = Timestamp(run)
             /\ \A i \in 1..N : worker_pc[i] = "stopped"
             /\ writer_pc \in {"exited", "died"})
    /\ [][end_written => file_state' = file_state]_vars

\* end_time is written in a run that added rows
C13_Witness ==
    /\ end_written
    /\ file_state # table_at_start
    /\ HasMetadata(db_info, Key("end_time"))

\* the walker stands at lines 87-89 with a file that passed line 84
WalkerHolds(fpath) ==
    /\ main_pc = "walk"
    /\ stack # <<>>
    /\ Top.checked
    /\ PathJoin(Top.dir_path, Head(Top.files)) = fpath

\* the walker stands at lines 87-89
WalkerWaits == main_pc = "walk" /\ stack # <<>> /\ Top.checked

\* C14: a file request is put on input_queue only in a state where the queue
\* holds at most QueueCeiling requests, so during the walk the queue never
\* holds more than QueueCeiling + 1; the walker that holds a file at the
\* loop of line 87 leaves it only by putting that file's request, main
\* staying in the walk; and while it holds a file either the put can be done
\* or, the queue being above the ceiling, a worker thread can take a step.
C14_Backpressure ==
    /\ [][(/\ run' = run
           /\ Len(input_queue') = Len(input_queue) + 1
           /\ ~input_queue'[Len(input_queue')].last_request)
              => Len(input_queue) <= QueueCeiling]_vars
    /\ [](main_pc = "walk" => Len(input_queue) <= QueueCeiling + 1)
    /\ [][\A f \in AllFiles(fs) :
            (WalkerHolds(f.path) /\ ~WalkerHolds(f.path)')
               => /\ input_queue' =
                        Append(input_queue, FileFingerprintRequest(f.path, FALSE))
                  /\ main_pc' = "walk"]_vars
    /\ [](WalkerWaits =>
             IF CanPut(input_queue) THEN ENABLED WalkPut
             ELSE \E idx \in 1..N : ENABLED WorkerGet(idx) \/ ENABLED WorkerRespond(idx))

\* the walker waits with a file while the queue is above the ceiling
C14_Witness ==
    /\ \E f \in AllFiles(fs) : WalkerHolds(f.path)
    /\ Len(input_queue) = QueueCeiling + 1
    /\ ~CanPut(input_queue)

\* the rows of a table that hold the digest
RowsWith(rows, sha384) == {r \in rows : r.sha384 = sha384}

\* C15: when find_duplicates.py has run on a table, --dup_log holds one group
\* for each digest that two or more rows of the table hold and for no other
\* digest, and the group of a digest lists the filenames of all rows with
\* that digest and nothing else.
C15_DuplicateGrouping ==
    dup_pc # "idle" =>
        /\ dup_pc = "done"
        /\ dup_log.written
        /\ {g.sha384 : g \in dup_log.groups} =
               {h \in {r.sha384 : r \in dup_table} :
                    Cardinality(RowsWith(dup_table, h)) >= 2}
        /\ \A g \in dup_log.groups :
               g.files = {r.filename : r \in RowsWith(dup_table, g.sha384)}
        /\ \A g1, g2 \in dup_log.groups : g1.sha384 = g2.sha384 => g1 = g2

\* the row record_file writes for a response
RowOf(resp) ==
    [filename |-> StrReplace(resp.filename, InDir),
     directory |-> Dirname(StrReplace(resp.filename, InDir)),
     sha384 |-> resp.sha384,
     filesize |-> resp.file_size]

\* C16: from the start of the threads of a run to the return of the joins, a
\* step that changes file_state or db_info is the writer thread taking a
\* successful response and adding its row to file_state; the steps of main
\* in list_and_process_directory and at the termination requests, and the
\* steps of the worker threads, leave file_state and db_info as they are.
C16_SingleWriter ==
    /\ [][(/\ run' = run
           /\ main_pc # "joined"
           /\ <<file_state, db_info>>' # <<file_state, db_info>>)
              => /\ writer_pc = "run"
                 /\ output_queue # <<>>
                 /\ output_queue' = Tail(output_queue)
                 /\ Head(output_queue).success
                 /\ file_state' = file_state \cup {RowOf(Head(output_queue))}
                 /\ db_info' = db_info]_vars
    /\ [][(/\ run' = run
           /\ \/ stack' # stack
              \/ sent' # sent
              \/ input_queue' # input_queue
              \/ worker_pc' # worker_pc)
              => UNCHANGED <<file_state, db_info, db_exists>>]_vars

\* the writer thread has added a row while main is still in the walk, after
\* the check of line 84 skipped or passed a file and a worker thread answered
C16_Witness ==
    /\ main_pc = "walk"
    /\ file_state # table_at_start
    /\ enqueued # {}
    /\ writer_pc = "run"

\* the worker threads that have taken a termination request
TookSentinel ==
    {i \in 1..N : \/ worker_pc[i] = "stopped"
                  \/ worker_pc[i] = "work" /\ worker_req[i].last_request}

\* C17: in a run the writer's countdown is N minus the termination responses
\* it has taken and is never negative; a step changes it only by the writer
\* taking a termination response, which lowers it by one, and the writer
\* taking a file response, successful or failed, leaves it as it is; the
\* writer has left its loop only with N termination responses taken, and
\* it has taken no more of them than worker threads have taken termination
\* requests, so with fewer than N of these it has not left its loop.
C17_CollectorExit ==
    /\ [](writer_pc # "off" => (num_workers = N - acks /\ num_workers >= 0))
    /\ [][(run' = run /\ num_workers' # num_workers) =>
             /\ writer_pc = "run"
             /\ output_queue # <<>>
             /\ Head(output_queue).last_response
             /\ output_queue' = Tail(output_queue)
             /\ num_workers' = num_workers - 1
             /\ acks' = acks + 1]_vars
    /\ [][(/\ run' = run
           /\ output_queue # <<>>
           /\ output_queue' = Tail(output_queue)
           /\ ~Head(output_queue).last_response)
              => (num_workers' = num_workers /\ acks' = acks)]_vars
    /\ [](writer_pc = "exited" => (acks = N /\ num_workers = 0))
    /\ [](acks <= Cardinality(TookSentinel))
    /\ [](Cardinality(TookSentinel) < N => writer_pc # "exited")

\* the writer has left its loop in a run with MaxWorkers worker threads in
\* which it took a failed and a successful file response
C17_Witness ==
    /\ writer_pc = "exited"
    /\ N = MaxWorkers
    /\ acks = N
    /\ failed # {}
    /\ file_state # table_at_start

\* C18: once a worker thread has taken a termination request, input_queue
\* holds no file request and that worker takes nothing more; a worker thread
\* that ends its work on a request puts exactly one response, the termination
\* response for a termination request and the file's response for a file
\* request, and output_queue grows in no other way; and when the writer has
\* left its loop both queues are empty, no worker holds a request, every
\* file put on the queue whose digest succeeds is recorded and every other
\* one has failed.
C18_NoWorkLost ==
    /\ [](TookSentinel # {} =>
             /\ main_pc \in {"sentinels", "join", "joined", "done", "crashed"}
             /\ \A k \in 1..Len(input_queue) : input_queue[k].last_request)
    /\ [][\A idx \in Workers :
            (worker_pc[idx] = "stopped" /\ run' = run) =>
                (worker_pc'[idx] = "stopped" /\ worker_req'[idx] = worker_req[idx])]_vars
    /\ [][\A idx \in Workers :
            (worker_pc[idx] = "work" /\ worker_pc'[idx] # "work" /\ run' = run)
               => /\ Len(output_queue') = Len(output_queue) + 1
                  /\ LET resp == output_queue'[Len(output_queue')]
                         req == worker_req[idx]
                     IN  /\ resp.last_response = req.last_request
                         /\ ~req.last_request =>
                                resp.filename = req.requested_filename]_vars
    /\ [][(run' = run /\ Len(output_queue') > Len(output_queue)) =>
             /\ Len(output_queue') = Len(output_queue) + 1
             /\ Cardinality({idx \in Workers :
                    worker_pc[idx] = "work" /\ worker_pc'[idx] # "work"}) = 1]_vars
    /\ [](writer_pc = "exited" =>
             /\ input_queue = <<>>
             /\ output_queue = <<>>
             /\ \A i \in 1..N : worker_pc[i] = "stopped"
             /\ \A f \in AllFiles(fs) :
                    f.path \in enqueued =>
                        IF f.entry.ok THEN RecordedUnderKey(f)
                        ELSE f.path \in failed)

\* the writer has left its loop in a run with MaxWorkers worker threads that
\* put two files or more on the queue
C18_Witness ==
    /\ writer_pc = "exited"
    /\ N = MaxWorkers
    /\ Cardinality(enqueued) >= 2
    /\ input_queue = <<>>
    /\ output_queue = <<>>

\* C19: for every file the walker has put on the queue, the key computed at
\* line 82 and again at line 106 is the file's path relative to --in_dir, and
\* two different files put on the queue have different keys.
C19_StoreKeyDerivation ==
    /\ \A f \in AllFiles(fs) :
           f.path \in enqueued => StoreKey(f.path) = RelPath(f.path)
    /\ \A f, g \in AllFiles(fs) :
           (f.path \in enqueued /\ g.path \in enqueued /\ f.path # g.path)
               => StoreKey(f.path) # StoreKey(g.path)

\* C20: in a resume run the list main works with, the split of the persisted
\* excludes value, is the list given to the run that created the store; when
\* that list was empty, the resume run's filter lets every name through.
C20_ExclusionRoundTrip ==
    is_resume =>
        /\ StoredExclude = first_exclude
        /\ exclude = first_exclude
        /\ first_exclude = <<>> =>
               \A d \in DOMAIN fs :
                   FilterExcluded(ListDir(fs, d), exclude) = ListDir(fs, d)

=============================================================================
